---- MODULE Spec2Model ----
(***************************************************************************)
(* Model of the instruction-count benchmark harness in src/src/bench_lib:  *)
(* the registry and its validation (benchmark.rs), the cachegrind adapter  *)
(* (cachegrind.rs) and the top-level orchestrator run_all (runner.rs).     *)
(*                                                                         *)
(* One behaviour is one top-level run over one registry.  The registry,    *)
(* the outcome of every external process and the counts the profiler       *)
(* reports are inputs, drawn from bounded sets.                            *)
(***************************************************************************)
EXTENDS Integers, Sequences, FiniteSets, TLC

\* ------------------------------------------------------------------ bounds
\* Longest registry that is explored.
MaxBench == 3
\* Largest instruction count the profiler reports (counts are 0..MaxCount).
MaxCount == 1
\* Width in bits of the instruction-count type (u64 in the source, scaled).
WordBits == 3

Modulus == 2 ^ WordBits

\* Benchmark names that can be registered or referenced; one of them is the
\* label run_all gives to the calibration measurement.
Names == {"a", "b", "calibration"}

\* Names a reporting mode can refer to: "x" and "y" are never registered.
SetupNames == Names \cup {"x", "y"}

Counts == 0 .. MaxCount

\* --------------------------------------------------------- benchmark.rs
Hidden == [kind |-> "Hidden", setup |-> ""]

AllInstructions == [kind |-> "AllInstructions", setup |-> ""]

AllInstructionsExceptSetup(name) ==
    [kind |-> "AllInstructionsExceptSetup", setup |-> name]

ReportingMode ==
    {Hidden, AllInstructions} \cup {AllInstructionsExceptSetup(n) : n \in SetupNames}

\* The function field is opaque to the harness and is left out.
Benchmark == [name : Names, reporting_mode : ReportingMode]

Registries == UNION {[1 .. n -> Benchmark] : n \in 0 .. MaxBench}

\* itertools' duplicates(): an element is yielded when it is met for the
\* second time, and never again.
RECURSIVE DuplicatesFrom(_, _, _, _, _)
DuplicatesFrom(bs, i, seen, yielded, out) ==
    IF i > Len(bs) THEN out
    ELSE LET x == bs[i].name IN
         IF x \notin seen
           THEN DuplicatesFrom(bs, i + 1, seen \cup {x}, yielded, out)
         ELSE IF x \notin yielded
           THEN DuplicatesFrom(bs, i + 1, seen, yielded \cup {x}, Append(out, x))
         ELSE DuplicatesFrom(bs, i + 1, seen, yielded, out)

\* Mutant of duplicate_names: a name is yielded every time it is met again.
duplicate_namesEveryRepeat(bs) ==
    LET RECURSIVE Rep(_, _, _)
        Rep(i, seen, out) ==
            IF i > Len(bs) THEN out
            ELSE IF bs[i].name \in seen
                   THEN Rep(i + 1, seen, Append(out, bs[i].name))
                   ELSE Rep(i + 1, seen \cup {bs[i].name}, out)
    IN Rep(1, {}, <<>>)

duplicate_names(bs) == DuplicatesFrom(bs, 1, {}, {}, <<>>)

all_names(bs) == {bs[i].name : i \in DOMAIN bs}

referenced_names(bs) ==
    {bs[i].reporting_mode.setup :
        i \in {j \in DOMAIN bs :
                 bs[j].reporting_mode.kind = "AllInstructionsExceptSetup"}}

\* Mutant of undefined_names: the registered names are not taken out.
undefined_namesAllReferenced(bs) == referenced_names(bs)

\* Mutant of undefined_names: the difference is taken the other way round.
undefined_namesReversed(bs) == all_names(bs) \ referenced_names(bs)

\* Mutant of undefined_names: no reference is ever found dangling.
undefined_namesNone(bs) == {}

undefined_names(bs) == referenced_names(bs) \ all_names(bs)

\* The orders in which a hash set can hand out its elements.
Orderings(S) ==
    {s \in [1 .. Cardinality(S) -> S] : \A x \in S : \E i \in DOMAIN s : s[i] = x}

NoPanic == [kind |-> "none", names |-> <<>>]

\* The panics validate can end in: the result is a set because the order of
\* the names of the second message is the hash set's.
validateOutcomes(bs) ==
    IF duplicate_names(bs) # <<>>
      THEN {[kind |-> "duplicates", names |-> duplicate_names(bs)]}
    ELSE IF undefined_names(bs) # {}
      THEN {[kind |-> "undefined", names |-> o] : o \in Orderings(undefined_names(bs))}
    ELSE {NoPanic}

\* ------------------------------------------------------------ arithmetic
\* a - b on the unsigned count type: exact when a >= b; otherwise the build
\* either panics (overflow checks on) or wraps (overflow checks off).
SubOutcomes(a, b) ==
    IF a >= b
      THEN {[panic |-> FALSE, val |-> a - b]}
      ELSE {[panic |-> TRUE, val |-> 0],
            [panic |-> FALSE, val |-> (a + Modulus - b) % Modulus]}

\* ----------------------------------------------------------------- state
VARIABLES
    benches,        \* the registry handed to main
    pc,             \* position of the top-level process in run_all
    panicMsg,       \* the panic the process died of, NoPanic otherwise
    stdout,         \* the lines written to standard output, in order
    valgrindProbes, \* number of `valgrind --version` invocations
    probe,          \* how the `valgrind --version` probe ended, "none" before
    archProbes,     \* number of `uname -m` invocations
    calib,          \* the calibration measurement: [st, raw]
    task,           \* per registry index: [st, raw, count] of its measurement
    outOfOrder,     \* some measurement came back before one of a lower index
    results,        \* the HashMap name -> adjusted count, once collected
    next,           \* index of the benchmark the reporting loop is at
    inflight,       \* the measurements under way: [by, path] of their output file
    removed,        \* the remove_file calls made so far: [by, path]
    argv,           \* the arguments of the process, argv[1] the executable
    ran,            \* registry positions whose function was run, in order
    built,          \* the Benchmark value a builder chain has produced so far
    calls,          \* the calls of that chain, Benchmark::new first
    launches,       \* per index (-1 the calibration): profiled children launched
    outfile,        \* the output file one run_bench call works on: its lines
    rb              \* that run_bench call: [status, read, parsed, removes, ret]

runVars == <<benches, pc, panicMsg, stdout, valgrindProbes, probe, archProbes,
             calib, task, outOfOrder, results, next>>

fileVars == <<inflight, removed, launches>>

dispatchVars == <<argv, ran>>

builderVars == <<built, calls>>

benchVars == <<outfile, rb>>

vars == <<runVars, fileVars, dispatchVars, builderVars, benchVars>>

\* No file at the path.
NoFile == [exists |-> FALSE, lines |-> <<>>]

\* A count, or the lack of one: what run_bench has parsed, and returned.
NoCount == [some |-> FALSE, val |-> 0]

SomeCount(v) == [some |-> TRUE, val |-> v]

\* run_bench before its child is spawned.
IdleBench ==
    [status |-> "none", read |-> FALSE, parsed |-> NoCount, removes |-> 0,
     remove_ok |-> FALSE, ret |-> NoCount]

\* No child launched yet, for the calibration (-1) and every index of bs.
NoLaunches(bs) == [i \in -1 .. Len(bs) - 1 |-> 0]

\* The value of `built` before Benchmark::new.
NoBenchmark == [name |-> "", function |-> "", reporting_mode |-> AllInstructions]

IdleTask == [st |-> "idle", raw |-> 0, count |-> 0]

Init ==
    /\ benches \in Registries
    /\ pc = "start"
    /\ panicMsg = NoPanic
    /\ stdout = <<>>
    /\ valgrindProbes = 0
    /\ probe = "none"
    /\ archProbes = 0
    /\ calib = [st |-> "idle", raw |-> 0]
    /\ task = [i \in DOMAIN benches |-> IdleTask]
    /\ outOfOrder = FALSE
    /\ results = <<>>
    /\ next = 1
    /\ inflight = {}
    /\ removed = {}
    /\ launches = NoLaunches(benches)
    /\ outfile = NoFile
    /\ rb = IdleBench
    /\ argv = <<"exe">>
    /\ ran = <<>>
    /\ built = NoBenchmark
    /\ calls = <<>>

Panic(msg) ==
    /\ pc' = "panicked"
    /\ panicMsg' = msg

\* run_all, line 37: benchmark::validate(benches)
Validate ==
    /\ pc = "start"
    /\ \E out \in validateOutcomes(benches) :
          IF out = NoPanic
            THEN pc' = "validated" /\ panicMsg' = panicMsg
            ELSE Panic(out)
    /\ UNCHANGED <<benches, stdout, valgrindProbes, probe, archProbes, calib,
                   task, outOfOrder, results, next>>
    /\ UNCHANGED <<fileVars, dispatchVars, builderVars, benchVars>>

\* --------------------------------------------------------- cachegrind.rs
DiagLine(what) == [kind |-> "diagnostic", count |-> 0, name |-> what]

ResultLine(c, n) == [kind |-> "result", count |-> c, name |-> n]

\* What the `valgrind --tool=cachegrind --version` probe can end in.
ProbeOutcomes == {"success", "launch_error", "failure_status"}

\* Mutant of check_valgrind: only a failure to launch counts as unavailable.
check_valgrindStatusIgnored(outcome) == outcome # "launch_error"

\* check_valgrind: the boolean it returns.
check_valgrind(outcome) == outcome = "success"

\* Mutant of check_valgrindOutput: a failure status is not reported.
check_valgrindOutputLaunchOnly(outcome) ==
    IF outcome = "launch_error" THEN <<DiagLine(outcome)>> ELSE <<>>

\* check_valgrind: the text it writes with println! for that outcome.
check_valgrindOutput(outcome) ==
    IF outcome = "success" THEN <<>> ELSE <<DiagLine(outcome)>>

\* Mutant of CheckValgrind: the probe is run without waiting for validate.
CheckValgrindUnvalidated ==
    /\ pc \in {"start", "validated"}
    /\ \E outcome \in ProbeOutcomes :
          /\ valgrindProbes' = valgrindProbes + 1
          /\ probe' = outcome
          /\ stdout' = stdout \o check_valgrindOutput(outcome)
          /\ pc' = IF check_valgrind(outcome) THEN "checked" ELSE "done"
    /\ UNCHANGED <<benches, panicMsg, archProbes, calib, task, outOfOrder,
                   results, next>>
    /\ UNCHANGED <<fileVars, dispatchVars, builderVars, benchVars>>

\* run_all, lines 39-41: if !check_valgrind() { return; }
CheckValgrind ==
    /\ pc = "validated"
    /\ \E outcome \in ProbeOutcomes :
          /\ valgrindProbes' = valgrindProbes + 1
          /\ probe' = outcome
          /\ stdout' = stdout \o check_valgrindOutput(outcome)
          /\ pc' = IF check_valgrind(outcome) THEN "checked" ELSE "done"
    /\ UNCHANGED <<benches, panicMsg, archProbes, calib, task, outOfOrder,
                   results, next>>
    /\ UNCHANGED <<fileVars, dispatchVars, builderVars, benchVars>>

\* run_all, line 43: get_arch(); both expect() calls panic.
GetArch ==
    /\ pc = "checked"
    /\ archProbes' = archProbes + 1
    /\ \E ok \in BOOLEAN :
          IF ok THEN pc' = "arch" /\ panicMsg' = panicMsg
                ELSE Panic([kind |-> "arch", names |-> <<>>])
    /\ UNCHANGED <<benches, stdout, valgrindProbes, probe, calib, task,
                   outOfOrder, results, next>>
    /\ UNCHANGED <<fileVars, dispatchVars, builderVars, benchVars>>

\* Mutant of output_file: the benchmark's name is left out of the path.
output_fileShared(name) == <<"target/cachegrind/cachegrind.out.", "">>

\* run_bench, line 31: format!("target/cachegrind/cachegrind.out.{}", name).
output_file(name) == <<"target/cachegrind/cachegrind.out.", name>>

\* run_bench, lines 30-49: the measurement of index i (0-based, -1 for the
\* calibration) labelled name is under way, writing to its output file.
Launched(i, name) == [by |-> i, path |-> output_file(name)]

\* run_bench, line 59: remove_file(output_file), by the measurement of index i.
RemovedBy(i) == {m \in inflight : m.by = i}

\* run_all, line 44: run_bench(&arch, executable, -1, "calibration"), from the
\* start of the call to the launch of the profiled child.
CalibrationStart ==
    /\ pc = "arch"
    /\ calib.st = "idle"
    /\ calib' = [calib EXCEPT !.st = "running"]
    /\ inflight' = inflight \cup {Launched(-1, "calibration")}
    /\ launches' = [launches EXCEPT ![-1] = @ + 1]
    /\ removed' = removed
    /\ UNCHANGED <<benches, pc, panicMsg, stdout, valgrindProbes, probe,
                   archProbes, task, outOfOrder, results, next>>
    /\ UNCHANGED <<dispatchVars, builderVars, benchVars>>

\* The calibration child has exited: run_bench returns its count or panics
\* (non-success exit, missing or unparseable summary line).
CalibrationFinish ==
    /\ pc = "arch"
    /\ calib.st = "running"
    /\ \E ok \in BOOLEAN, raw \in Counts :
          IF ok
            THEN /\ calib' = [st |-> "done", raw |-> raw]
                 /\ pc' = "parallel"
                 /\ panicMsg' = panicMsg
                 /\ removed' = removed \cup RemovedBy(-1)
            ELSE /\ calib' = [st |-> "failed", raw |-> 0]
                 /\ Panic([kind |-> "measurement", names |-> <<"calibration">>])
                 /\ removed' = removed
    /\ inflight' = inflight \ RemovedBy(-1)
    /\ launches' = launches
    /\ UNCHANGED <<benches, stdout, valgrindProbes, probe, archProbes, task,
                   outOfOrder, results, next>>
    /\ UNCHANGED <<dispatchVars, builderVars, benchVars>>

\* ------------------------------------------------------------- runner.rs
\* Mutant of BenchStart: the parallel map does not wait for the calibration.
BenchStartEarly(i) ==
    /\ pc \in {"arch", "parallel"}
    /\ task[i].st = "idle"
    /\ task' = [task EXCEPT ![i].st = "running"]
    /\ inflight' = inflight \cup {Launched(i - 1, benches[i].name)}
    /\ launches' = [launches EXCEPT ![i - 1] = @ + 1]
    /\ removed' = removed
    /\ UNCHANGED <<benches, pc, panicMsg, stdout, valgrindProbes, probe,
                   archProbes, calib, outOfOrder, results, next>>
    /\ UNCHANGED <<dispatchVars, builderVars, benchVars>>

\* Mutant of BenchStart: a measurement that failed is launched again.
BenchStartRetry(i) ==
    /\ pc = "parallel"
    /\ task[i].st \in {"idle", "failed"}
    /\ task' = [task EXCEPT ![i].st = "running"]
    /\ inflight' = inflight \cup {Launched(i - 1, benches[i].name)}
    /\ launches' = [launches EXCEPT ![i - 1] = @ + 1]
    /\ removed' = removed
    /\ UNCHANGED <<benches, pc, panicMsg, stdout, valgrindProbes, probe,
                   archProbes, calib, outOfOrder, results, next>>
    /\ UNCHANGED <<dispatchVars, builderVars, benchVars>>

\* run_all, lines 46-54: a worker takes the pair (i, bench) and launches its
\* measurement.  The pool hands out the indices in no fixed order.
BenchStart(i) ==
    /\ pc = "parallel"
    /\ task[i].st = "idle"
    /\ task' = [task EXCEPT ![i].st = "running"]
    /\ inflight' = inflight \cup {Launched(i - 1, benches[i].name)}
    /\ launches' = [launches EXCEPT ![i - 1] = @ + 1]
    /\ removed' = removed
    /\ UNCHANGED <<benches, pc, panicMsg, stdout, valgrindProbes, probe,
                   archProbes, calib, outOfOrder, results, next>>
    /\ UNCHANGED <<dispatchVars, builderVars, benchVars>>

\* Mutant of instr_count: the calibration count is not subtracted.
instr_countUncalibrated(raw, calibration) == {[panic |-> FALSE, val |-> raw]}

\* The adjusted count of the closure, lines 50-51: run_bench(..) - calibration.
instr_count(raw, calibration) == SubOutcomes(raw, calibration)

\* run_all, lines 50-52: the child of index i has exited; the closure yields
\* (bench.name(), run_bench(..) - calibration) or panics.
BenchFinish(i) ==
    /\ pc = "parallel"
    /\ task[i].st = "running"
    /\ \E ok \in BOOLEAN, raw \in Counts :
          IF ok
            THEN /\ \E r \in instr_count(raw, calib.raw) :
                      task' = [task EXCEPT ![i] =
                                 IF r.panic
                                   THEN [st |-> "failed", raw |-> 0, count |-> 0]
                                   ELSE [st |-> "done", raw |-> raw, count |-> r.val]]
                 /\ removed' = removed \cup RemovedBy(i - 1)
            ELSE /\ task' = [task EXCEPT ![i] = [st |-> "failed", raw |-> 0, count |-> 0]]
                 /\ removed' = removed
    /\ inflight' = inflight \ RemovedBy(i - 1)
    /\ launches' = launches
    /\ outOfOrder' = (outOfOrder \/ \E j \in 1 .. i - 1 : task[j].st \in {"idle", "running"})
    /\ UNCHANGED <<benches, pc, panicMsg, stdout, valgrindProbes, probe,
                   archProbes, calib, results, next>>
    /\ UNCHANGED <<dispatchVars, builderVars, benchVars>>

\* collect() into a HashMap: the pairs are inserted in index order, a later
\* pair replaces an earlier one of the same name.
RECURSIVE CollectFrom(_, _, _, _)
CollectFrom(bs, t, i, m) ==
    IF i > Len(bs) THEN m
    ELSE CollectFrom(bs, t, i + 1,
            [n \in (DOMAIN m) \cup {bs[i].name} |->
                IF n = bs[i].name THEN t[i].count ELSE m[n]])

\* Mutant of Collect: the count of index i is filed under the name at the
\* index before it, as if the two sides walked differently ordered registries.
CollectRotated(bs, t) ==
    [n \in {bs[i].name : i \in DOMAIN bs} |->
        t[((CHOOSE i \in DOMAIN bs : bs[i].name = n) % Len(bs)) + 1].count]

Collect(bs, t) == CollectFrom(bs, t, 1, <<>>)

\* Mutant of Join: the map is built although a closure panicked.
JoinDespiteFailure ==
    /\ pc = "parallel"
    /\ \A i \in DOMAIN task : task[i].st \in {"done", "failed"}
    /\ results' = Collect(benches, task)
    /\ pc' = "report"
    /\ UNCHANGED <<benches, panicMsg, stdout, valgrindProbes, probe, archProbes,
                   calib, task, outOfOrder, next>>
    /\ UNCHANGED <<fileVars, dispatchVars, builderVars, benchVars>>

\* run_all, line 54: every task has come back; collect() builds the map.
Join ==
    /\ pc = "parallel"
    /\ \A i \in DOMAIN task : task[i].st = "done"
    /\ results' = Collect(benches, task)
    /\ pc' = "report"
    /\ UNCHANGED <<benches, panicMsg, stdout, valgrindProbes, probe, archProbes,
                   calib, task, outOfOrder, next>>
    /\ UNCHANGED <<fileVars, dispatchVars, builderVars, benchVars>>

\* Mutant of JoinPanic: the panic is handed on only when every closure
\* panicked.
JoinPanicAllFailed ==
    /\ pc = "parallel"
    /\ \E i \in DOMAIN task : task[i].st = "failed"
    /\ \A i \in DOMAIN task : task[i].st = "failed"
    /\ Panic([kind |-> "measurement",
              names |-> <<benches[CHOOSE i \in DOMAIN task : task[i].st = "failed"].name>>])
    /\ UNCHANGED <<benches, stdout, valgrindProbes, probe, archProbes, calib,
                   task, outOfOrder, results, next>>
    /\ UNCHANGED <<fileVars, dispatchVars, builderVars, benchVars>>

\* A panic of a closure is handed on to run_all once no worker is inside a
\* measurement any more.
JoinPanic ==
    /\ pc = "parallel"
    /\ \E i \in DOMAIN task : task[i].st = "failed"
    /\ \A i \in DOMAIN task : task[i].st # "running"
    /\ Panic([kind |-> "measurement",
              names |-> <<benches[CHOOSE i \in DOMAIN task : task[i].st = "failed"].name>>])
    /\ UNCHANGED <<benches, stdout, valgrindProbes, probe, archProbes, calib,
                   task, outOfOrder, results, next>>
    /\ UNCHANGED <<fileVars, dispatchVars, builderVars, benchVars>>

\* Mutant of ReportOrder: the loop walks the benchmarks as they finished, here
\* backwards once some measurement overtook an earlier one.
ReportOrderByCompletion(bs, k) == IF outOfOrder THEN Len(bs) + 1 - k ELSE k

\* Mutant of ReportOrder: the loop walks the registry backwards.
ReportOrderReversed(bs, k) == Len(bs) + 1 - k

\* The index the reporting loop visits at its k-th iteration.
ReportOrder(bs, k) == k

Skip == [panic |-> FALSE, print |-> FALSE, val |-> 0]

Abort == [panic |-> TRUE, print |-> FALSE, val |-> 0]

Show(c) == [panic |-> FALSE, print |-> TRUE, val |-> c]

\* results[key]: indexing the map panics when the key is missing.
Lookup(res, key) ==
    IF key \in DOMAIN res THEN Show(res[key]) ELSE Abort

\* Mutant of visible_count: a hidden benchmark is reported like any other.
visible_countHiddenShown(bench, res) ==
    IF bench.reporting_mode.kind \in {"Hidden", "AllInstructions"}
      THEN {Lookup(res, bench.name)}
    ELSE LET w == Lookup(res, bench.name)
             s == Lookup(res, bench.reporting_mode.setup)
         IN IF w.panic \/ s.panic
              THEN {Abort}
              ELSE {IF r.panic THEN Abort ELSE Show(r.val) :
                       r \in SubOutcomes(w.val, s.val)}

\* Mutant of visible_count: the setup's count is first reduced by the count
\* of the setup's own setup.
visible_countSetupResolved(bench, res) ==
    IF bench.reporting_mode.kind = "Hidden"
      THEN {Skip}
    ELSE IF bench.reporting_mode.kind = "AllInstructions"
      THEN {Lookup(res, bench.name)}
    ELSE LET sname == bench.reporting_mode.setup
             sidx == {j \in DOMAIN benches : benches[j].name = sname}
             smode == IF sidx = {} THEN AllInstructions
                      ELSE benches[CHOOSE j \in sidx : TRUE].reporting_mode
             w == Lookup(res, bench.name)
             s == Lookup(res, sname)
             t == IF smode.kind = "AllInstructionsExceptSetup"
                    THEN Lookup(res, smode.setup) ELSE Show(0)
         IN IF w.panic \/ s.panic \/ t.panic
              THEN {Abort}
              ELSE {Show((w.val + 2 * Modulus - s.val + t.val) % Modulus)}

\* run_all, lines 57-63: what one iteration of the loop does with its
\* benchmark, as the set of its possible outcomes.
visible_count(bench, res) ==
    IF bench.reporting_mode.kind = "Hidden"
      THEN {Skip}
    ELSE IF bench.reporting_mode.kind = "AllInstructions"
      THEN {Lookup(res, bench.name)}
    ELSE LET w == Lookup(res, bench.name)
             s == Lookup(res, bench.reporting_mode.setup)
         IN IF w.panic \/ s.panic
              THEN {Abort}
              ELSE {IF r.panic THEN Abort ELSE Show(r.val) :
                       r \in SubOutcomes(w.val, s.val)}

\* run_all, lines 56-65: one iteration of the reporting loop.
ReportStep ==
    /\ pc = "report"
    /\ next <= Len(benches)
    /\ LET bench == benches[ReportOrder(benches, next)] IN
         \E r \in visible_count(bench, results) :
            IF r.panic
              THEN /\ Panic([kind |-> "report", names |-> <<bench.name>>])
                   /\ UNCHANGED <<stdout, next>>
              ELSE /\ stdout' = IF r.print
                                  THEN Append(stdout, ResultLine(r.val, bench.name))
                                  ELSE stdout
                   /\ next' = next + 1
                   /\ UNCHANGED <<pc, panicMsg>>
    /\ UNCHANGED <<benches, valgrindProbes, probe, archProbes, calib, task,
                   outOfOrder, results>>
    /\ UNCHANGED <<fileVars, dispatchVars, builderVars, benchVars>>

\* run_all, line 66: the loop is over and run_all returns.
ReportEnd ==
    /\ pc = "report"
    /\ next > Len(benches)
    /\ pc' = "done"
    /\ UNCHANGED <<benches, panicMsg, stdout, valgrindProbes, probe, archProbes,
                   calib, task, outOfOrder, results, next>>
    /\ UNCHANGED <<fileVars, dispatchVars, builderVars, benchVars>>

Next ==
    \/ Validate
    \/ CheckValgrind
    \/ GetArch
    \/ CalibrationStart
    \/ CalibrationFinish
    \/ \E i \in DOMAIN task : BenchStart(i)
    \/ \E i \in DOMAIN task : BenchFinish(i)
    \/ Join
    \/ JoinPanic
    \/ ReportStep
    \/ ReportEnd

Spec == Init /\ [][Next]_vars

\* The setup names the registries of SpecLive refer to: one that can be
\* registered and one that cannot.
LiveSetupNames == {"a", "x"}

InitLive ==
    /\ Init
    /\ \A i \in DOMAIN benches :
          benches[i].reporting_mode.kind = "AllInstructionsExceptSetup"
              => benches[i].reporting_mode.setup \in LiveSetupNames

\* The run under the assumption that every subprocess launched exits and that
\* run_all and the workers of the pool keep taking their steps: a step that
\* can be taken is taken.
SpecLive == InitLive /\ [][Next]_vars /\ WF_vars(Next)

\* validate alone, applied to every registry: the specification of the
\* properties that speak of validate only.
SpecValidate == Init /\ [][Validate]_vars

\* ------------------------------------------------- runner.rs: dispatch
\* The flag main looks for in its first argument.
BenchRunFlag == "--bench-run"

\* str::parse::<isize> on the texts explored: an optional sign and decimal
\* digits, nothing else (no blanks, no empty text).
IsizeText ==
    [t \in {"-2", "-1", "0", "1", "2", "3", "+1", "03"} |->
        CASE t = "-2" -> -2
          [] t = "-1" -> -1
          [] t = "0" -> 0
          [] t = "1" -> 1
          [] t = "2" -> 2
          [] t = "3" -> 3
          [] t = "+1" -> 1
          [] t = "03" -> 3]

parse_isize(text) ==
    IF text \in DOMAIN IsizeText
      THEN [ok |-> TRUE, val |-> IsizeText[text]]
      ELSE [ok |-> FALSE, val |-> 0]

\* Arguments that are neither the flag nor read as an integer.
OtherTokens == {"", "x", "1x", " 1", "--bench"}

IndexTokens == DOMAIN IsizeText \cup OtherTokens

\* isize::to_string on the indices run_bench is called with.
to_string(i) ==
    IF i = -1 THEN "-1" ELSE <<"0", "1", "2", "3", "4", "5", "6", "7", "8", "9">>[i + 1]

\* run_bench, lines 43-45: the arguments the profiled child is started with.
ChildArgs(i) == <<"exe", BenchRunFlag, to_string(i)>>

\* The command lines explored: argv[1] is the executable.
ArgLists ==
    {<<"exe">>, <<"exe", BenchRunFlag>>, <<"exe", BenchRunFlag, BenchRunFlag>>}
      \cup {<<"exe", BenchRunFlag, t>> : t \in IndexTokens}
      \cup {<<"exe", BenchRunFlag, t, "x">> : t \in {"-1", "0", "x"}}
      \cup {<<"exe", t>> : t \in {"x", "0", "-1", "--bench"}}
      \cup {<<"exe", "x", BenchRunFlag>>}
      \cup {<<"exe", t, BenchRunFlag, u>> : t \in {"x", "0"}, u \in {"0", "-1"}}

\* The registries a child process is started with: main and run_single read
\* the length of the registry and the function at one index only, so the
\* reporting modes are drawn from a smaller set; names may repeat and
\* references may dangle, as nothing validates them here.
DispatchBenchmark ==
    [name : Names,
     reporting_mode : {Hidden, AllInstructions, AllInstructionsExceptSetup("x")}]

DispatchRegistries == UNION {[1 .. n -> DispatchBenchmark] : n \in 0 .. MaxBench}

\* `index as usize` of run_single, line 31, on the scaled word.
as_usize(i) == IF i >= 0 THEN i ELSE i + Modulus

ChildPanic(kind) == [panic |-> kind, ran |-> <<>>]

\* Mutant of run_single: the -1 sentinel is not recognised.
run_singleNoSentinel(index, bs) ==
    LET p == parse_isize(index) IN
    IF ~p.ok THEN ChildPanic("parse")
    ELSE IF as_usize(p.val) >= Len(bs) THEN ChildPanic("index")
    ELSE [panic |-> "none", ran |-> <<as_usize(p.val) + 1>>]

\* Mutant of run_single: the benchmark after the one asked for is run.
run_singleOffByOne(index, bs) ==
    LET p == parse_isize(index) IN
    IF ~p.ok THEN ChildPanic("parse")
    ELSE IF p.val = -1 THEN [panic |-> "none", ran |-> <<>>]
    ELSE IF as_usize(p.val) >= Len(bs) THEN ChildPanic("index")
    ELSE [panic |-> "none",
          ran |-> <<IF as_usize(p.val) + 2 <= Len(bs) THEN as_usize(p.val) + 2 ELSE 1>>]

\* Mutant of run_single: every negative index is taken for the sentinel.
run_singleNegativeReturns(index, bs) ==
    LET p == parse_isize(index) IN
    IF ~p.ok THEN ChildPanic("parse")
    ELSE IF p.val <= -1 THEN [panic |-> "none", ran |-> <<>>]
    ELSE IF as_usize(p.val) >= Len(bs) THEN ChildPanic("index")
    ELSE [panic |-> "none", ran |-> <<as_usize(p.val) + 1>>]

\* run_single, lines 20-33: what the call ends in, and the registry positions
\* (from 1) whose function it ran.
run_single(index, bs) ==
    LET p == parse_isize(index) IN
    IF ~p.ok THEN ChildPanic("parse")
    ELSE IF p.val = -1 THEN [panic |-> "none", ran |-> <<>>]
    ELSE IF as_usize(p.val) >= Len(bs) THEN ChildPanic("index")
    ELSE [panic |-> "none", ran |-> <<as_usize(p.val) + 1>>]

\* main, line 10: Some("--bench-run") = args_iter.next().as_deref()
is_child(av) == Len(av) >= 2 /\ av[2] = BenchRunFlag

\* Mutant of MainDispatch: a flag with nothing after it starts the top-level
\* run.
MainDispatchLenient ==
    /\ pc = "main"
    /\ IF is_child(argv) /\ Len(argv) >= 3
         THEN pc' = "run_single" /\ panicMsg' = panicMsg
         ELSE pc' = "start" /\ panicMsg' = panicMsg
    /\ UNCHANGED <<benches, stdout, valgrindProbes, probe, archProbes, calib,
                   task, outOfOrder, results, next>>
    /\ UNCHANGED <<fileVars, dispatchVars, builderVars, benchVars>>

\* main, lines 6-17, up to the call it makes: run_single with the argument
\* after the flag (unwrap panics when there is none), or run_all.
MainDispatch ==
    /\ pc = "main"
    /\ IF is_child(argv)
         THEN IF Len(argv) >= 3
                THEN pc' = "run_single" /\ panicMsg' = panicMsg
                ELSE Panic([kind |-> "args", names |-> <<>>])
         ELSE pc' = "start" /\ panicMsg' = panicMsg
    /\ UNCHANGED <<benches, stdout, valgrindProbes, probe, archProbes, calib,
                   task, outOfOrder, results, next>>
    /\ UNCHANGED <<fileVars, dispatchVars, builderVars, benchVars>>

\* main, line 12: run_single(&args_iter.next().unwrap(), benchmarks), after
\* which main returns.
RunSingle ==
    /\ pc = "run_single"
    /\ LET r == run_single(argv[3], benches) IN
         /\ ran' = ran \o r.ran
         /\ IF r.panic = "none"
              THEN pc' = "child_done" /\ panicMsg' = panicMsg
              ELSE Panic([kind |-> r.panic, names |-> <<>>])
    /\ UNCHANGED <<benches, stdout, valgrindProbes, probe, archProbes, calib,
                   task, outOfOrder, results, next, argv>>
    /\ UNCHANGED <<fileVars, builderVars, benchVars>>

\* A process at the entry of main, with any command line.
InitMain ==
    /\ benches \in DispatchRegistries
    /\ argv \in ArgLists
    /\ pc = "main"
    /\ panicMsg = NoPanic
    /\ stdout = <<>>
    /\ valgrindProbes = 0
    /\ probe = "none"
    /\ archProbes = 0
    /\ calib = [st |-> "idle", raw |-> 0]
    /\ task = [i \in DOMAIN benches |-> IdleTask]
    /\ outOfOrder = FALSE
    /\ results = <<>>
    /\ next = 1
    /\ inflight = {}
    /\ removed = {}
    /\ launches = NoLaunches(benches)
    /\ outfile = NoFile
    /\ rb = IdleBench
    /\ ran = <<>>
    /\ built = NoBenchmark
    /\ calls = <<>>

NextMain ==
    \/ MainDispatch
    \/ RunSingle

\* main up to the point where it hands over to run_all (pc = "start", the
\* state Spec starts from), or to the end of a child invocation.
SpecMain == InitMain /\ [][NextMain]_vars

\* ------------------------------------------------ benchmark.rs: builders
MaxCalls == 3

\* Stand-ins for the closures a benchmark is built around.
Functions == {"f", "g"}

\* Benchmark::new, lines 27-33.
new(name, function) ==
    [name |-> name, function |-> function, reporting_mode |-> AllInstructions]

\* Mutant of hidden: a setup exclusion already chosen is kept.
hiddenKeepsExclusion(self) ==
    IF self.reporting_mode.kind = "AllInstructionsExceptSetup"
      THEN self
      ELSE [self EXCEPT !.reporting_mode = Hidden]

\* Benchmark::hidden, lines 35-38.
hidden(self) == [self EXCEPT !.reporting_mode = Hidden]

\* Benchmark::exclude_setup_instructions, lines 40-43.
exclude_setup_instructions(self, name) ==
    [self EXCEPT !.reporting_mode = AllInstructionsExceptSetup(name)]

Call(op, name, function) == [op |-> op, name |-> name, function |-> function]

BuilderFrame ==
    /\ pc' = pc
    /\ UNCHANGED <<benches, panicMsg, stdout, valgrindProbes, probe, archProbes,
                   calib, task, outOfOrder, results, next>>
    /\ UNCHANGED <<fileVars, dispatchVars, benchVars>>

NewCall(name, function) ==
    /\ pc = "build"
    /\ calls = <<>>
    /\ built' = new(name, function)
    /\ calls' = <<Call("new", name, function)>>
    /\ BuilderFrame

HiddenCall ==
    /\ pc = "build"
    /\ calls # <<>>
    /\ Len(calls) <= MaxCalls
    /\ built' = hidden(built)
    /\ calls' = Append(calls, Call("hidden", "", ""))
    /\ BuilderFrame

ExcludeCall(name) ==
    /\ pc = "build"
    /\ calls # <<>>
    /\ Len(calls) <= MaxCalls
    /\ built' = exclude_setup_instructions(built, name)
    /\ calls' = Append(calls, Call("exclude_setup_instructions", name, ""))
    /\ BuilderFrame

\* Before any benchmark is built.
InitBuilder ==
    /\ benches = <<>>
    /\ argv = <<"exe">>
    /\ pc = "build"
    /\ panicMsg = NoPanic
    /\ stdout = <<>>
    /\ valgrindProbes = 0
    /\ probe = "none"
    /\ archProbes = 0
    /\ calib = [st |-> "idle", raw |-> 0]
    /\ task = <<>>
    /\ outOfOrder = FALSE
    /\ results = <<>>
    /\ next = 1
    /\ inflight = {}
    /\ removed = {}
    /\ launches = NoLaunches(benches)
    /\ outfile = NoFile
    /\ rb = IdleBench
    /\ ran = <<>>
    /\ built = NoBenchmark
    /\ calls = <<>>

NextBuilder ==
    \/ \E name \in Names, function \in Functions : NewCall(name, function)
    \/ HiddenCall
    \/ \E name \in SetupNames : ExcludeCall(name)

\* One benchmark under construction: new, then any chain of builder calls.
SpecBuilder == InitBuilder /\ [][NextBuilder]_vars

\* ------------------------------------------- cachegrind.rs: one run_bench
MaxLines == 3

\* A line is the sequence of its pieces: the literal "summary: " is one
\* piece, every other character a piece of its own.
SummaryPrefix == "summary: "

Whitespace == {" ", "\t"}

DigitValue ==
    [c \in {"0", "1", "2", "3", "4", "5", "6", "7", "8", "9"} |->
        CASE c = "0" -> 0 [] c = "1" -> 1 [] c = "2" -> 2 [] c = "3" -> 3
          [] c = "4" -> 4 [] c = "5" -> 5 [] c = "6" -> 6 [] c = "7" -> 7
          [] c = "8" -> 8 [] c = "9" -> 9]

\* A line BufRead::lines cannot decode.
InvalidLine == <<"<invalid utf-8>">>

\* The lines the output files explored are made of.
Lines ==
    {<<SummaryPrefix, "1">>,
     <<SummaryPrefix, "0">>,
     <<SummaryPrefix, " ", "2", "\t">>,
     <<SummaryPrefix, "1", "2">>,
     <<SummaryPrefix, "+", "1">>,
     <<SummaryPrefix, "-", "1">>,
     <<SummaryPrefix, "x">>,
     <<SummaryPrefix>>,
     <<"s", "u", "m", "m", "a", "r", "y", ":", "1">>,
     <<" ", SummaryPrefix, "1">>,
     <<"e", "v", "e", "n", "t", "s", ":", " ", "I", "r">>,
     InvalidLine}

Files ==
    {NoFile} \cup
    {[exists |-> TRUE, lines |-> l] :
        l \in UNION {[1 .. n -> Lines] : n \in 0 .. MaxLines}}

\* str::strip_prefix("summary: ")
strip_prefix(line) ==
    IF line # <<>> /\ line[1] = SummaryPrefix
      THEN [some |-> TRUE, rest |-> Tail(line)]
      ELSE [some |-> FALSE, rest |-> <<>>]

RECURSIVE trim_start(_)
trim_start(t) ==
    IF t # <<>> /\ t[1] \in Whitespace THEN trim_start(Tail(t)) ELSE t

RECURSIVE trim_end(_)
trim_end(t) ==
    IF t # <<>> /\ t[Len(t)] \in Whitespace
      THEN trim_end(SubSeq(t, 1, Len(t) - 1))
      ELSE t

\* str::trim
trim(t) == trim_end(trim_start(t))

RECURSIVE Decimal(_)
Decimal(ds) ==
    IF ds = <<>> THEN 0
    ELSE 10 * Decimal(SubSeq(ds, 1, Len(ds) - 1)) + DigitValue[ds[Len(ds)]]

\* str::parse::<u64>: an optional "+", then one digit or more, and a value
\* that fits the word.
parse_u64(t) ==
    LET ds == IF t # <<>> /\ t[1] = "+" THEN Tail(t) ELSE t IN
    IF /\ ds # <<>>
       /\ \A k \in DOMAIN ds : ds[k] \in DOMAIN DigitValue
       /\ Decimal(ds) < Modulus
      THEN [ok |-> TRUE, val |-> Decimal(ds)]
      ELSE [ok |-> FALSE, val |-> 0]

ParsePanic(kind) == [panic |-> kind, val |-> 0]

\* Mutant of ScanFrom: a file with no summary line counts as 0.
RECURSIVE ScanFromZeroDefault(_, _)
ScanFromZeroDefault(ls, k) ==
    IF k > Len(ls) THEN [panic |-> "none", val |-> 0]
    ELSE IF ls[k] = InvalidLine THEN ParsePanic("read")
    ELSE IF strip_prefix(ls[k]).some
      THEN LET r == parse_u64(trim(strip_prefix(ls[k]).rest)) IN
           IF r.ok THEN [panic |-> "none", val |-> r.val] ELSE ParsePanic("summary")
    ELSE ScanFromZeroDefault(ls, k + 1)

\* parse_cachegrind_output, lines 67-77: the loop over the lines, from line k.
RECURSIVE ScanFrom(_, _)
ScanFrom(ls, k) ==
    IF k > Len(ls) THEN ParsePanic("no summary")
    ELSE IF ls[k] = InvalidLine THEN ParsePanic("read")
    ELSE IF strip_prefix(ls[k]).some
      THEN LET r == parse_u64(trim(strip_prefix(ls[k]).rest)) IN
           IF r.ok THEN [panic |-> "none", val |-> r.val] ELSE ParsePanic("summary")
    ELSE ScanFrom(ls, k + 1)

\* parse_cachegrind_output, lines 64-78.
parse_cachegrind_output(file) ==
    IF ~file.exists THEN ParsePanic("open") ELSE ScanFrom(file.lines, 1)

BenchFrame ==
    UNCHANGED <<benches, stdout, valgrindProbes, probe, archProbes, calib, task,
                outOfOrder, results, next, fileVars, dispatchVars, builderVars>>

\* Mutant of RunChild: the exit status of the child is not looked at.
RunChildStatusIgnored ==
    /\ pc = "run_bench"
    /\ \E st \in {"mkdir_error", "spawn_error", "failure", "success"} :
          /\ rb' = [rb EXCEPT !.status = st]
          /\ IF st \in {"success", "failure"}
               THEN pc' = "rb_parse" /\ panicMsg' = panicMsg
               ELSE Panic([kind |-> st, names |-> <<>>])
    /\ outfile' = outfile
    /\ BenchFrame

\* run_bench, lines 32-56: the directory is made, the child is run under
\* setarch and valgrind and waited for, and its exit status is looked at.
RunChild ==
    /\ pc = "run_bench"
    /\ \E st \in {"mkdir_error", "spawn_error", "failure", "success"} :
          /\ rb' = [rb EXCEPT !.status = st]
          /\ IF st = "success"
               THEN pc' = "rb_parse" /\ panicMsg' = panicMsg
               ELSE Panic([kind |-> st, names |-> <<>>])
    /\ outfile' = outfile
    /\ BenchFrame

\* run_bench, line 58: let instruction_count = parse_cachegrind_output(..).
ParseOutput ==
    /\ pc = "rb_parse"
    /\ LET r == parse_cachegrind_output(outfile) IN
         IF r.panic = "none"
           THEN /\ rb' = [rb EXCEPT !.read = TRUE, !.parsed = SomeCount(r.val)]
                /\ pc' = "rb_remove"
                /\ panicMsg' = panicMsg
           ELSE /\ rb' = [rb EXCEPT !.read = TRUE]
                /\ Panic([kind |-> r.panic, names |-> <<>>])
    /\ outfile' = outfile
    /\ BenchFrame

\* Mutant of RemoveFile: a deletion that fails is fatal.
RemoveFileStrict ==
    /\ pc = "rb_remove"
    /\ \E ok \in BOOLEAN :
          /\ outfile' = IF ok THEN NoFile ELSE outfile
          /\ IF ok
               THEN /\ rb' = [rb EXCEPT !.removes = @ + 1, !.remove_ok = ok,
                                        !.ret = rb.parsed]
                    /\ pc' = "rb_returned"
                    /\ panicMsg' = panicMsg
               ELSE /\ rb' = [rb EXCEPT !.removes = @ + 1, !.remove_ok = ok]
                    /\ Panic([kind |-> "remove", names |-> <<>>])
    /\ BenchFrame

\* run_bench, lines 59-61: remove_file(output_file).ok(), whose result is
\* dropped, then the count parsed is returned.
RemoveFile ==
    /\ pc = "rb_remove"
    /\ \E ok \in BOOLEAN :
          /\ outfile' = IF ok THEN NoFile ELSE outfile
          /\ rb' = [rb EXCEPT !.removes = @ + 1, !.remove_ok = ok,
                              !.ret = rb.parsed]
    /\ pc' = "rb_returned"
    /\ panicMsg' = panicMsg
    /\ BenchFrame

\* run_bench is entered; the file is what the child will have left at the
\* path when it has exited.
InitBench ==
    /\ benches = <<>>
    /\ argv = <<"exe">>
    /\ pc = "run_bench"
    /\ panicMsg = NoPanic
    /\ stdout = <<>>
    /\ valgrindProbes = 0
    /\ probe = "none"
    /\ archProbes = 0
    /\ calib = [st |-> "idle", raw |-> 0]
    /\ task = <<>>
    /\ outOfOrder = FALSE
    /\ results = <<>>
    /\ next = 1
    /\ inflight = {}
    /\ removed = {}
    /\ launches = NoLaunches(benches)
    /\ ran = <<>>
    /\ built = NoBenchmark
    /\ calls = <<>>
    /\ outfile \in Files
    /\ rb = IdleBench

NextBench ==
    \/ RunChild
    \/ ParseOutput
    \/ RemoveFile

\* One call of run_bench, for every file the child can leave behind.
SpecBench == InitBench /\ [][NextBench]_vars

\* ------------------------------------------------------------ properties
\* Vocabulary of the properties, stated on the registry and on the output
\* without the operators of the model above.
Occ(n) == Cardinality({i \in DOMAIN benches : benches[i].name = n})

MsgOcc(n) == Cardinality({i \in DOMAIN panicMsg.names : panicMsg.names[i] = n})

DistinctNames ==
    \A i, j \in DOMAIN benches : i # j => benches[i].name # benches[j].name

IsExcept(i) == benches[i].reporting_mode.kind = "AllInstructionsExceptSetup"

Registered(n) == \E j \in DOMAIN benches : benches[j].name = n

Dangling ==
    {benches[i].reporting_mode.setup :
        i \in {j \in DOMAIN benches :
                 IsExcept(j) /\ ~Registered(benches[j].reporting_mode.setup)}}

ValidRegistry == DistinctNames /\ Dangling = {}

ValidatePanicked == pc = "panicked" /\ panicMsg.kind \in {"duplicates", "undefined"}

ToolStarted ==
    \/ valgrindProbes > 0
    \/ archProbes > 0
    \/ calib.st # "idle"
    \/ \E i \in DOMAIN task : task[i].st # "idle"

ResultLines == SelectSeq(stdout, LAMBDA l : l.kind = "result")

LinesOf(n) == Cardinality({p \in DOMAIN stdout :
                             stdout[p].kind = "result" /\ stdout[p].name = n})

IsVisible(b) == b.reporting_mode.kind # "Hidden"

VisibleNames ==
    LET v == SelectSeq(benches, IsVisible) IN [p \in DOMAIN v |-> v[p].name]

ResultNames == [p \in DOMAIN ResultLines |-> ResultLines[p].name]

IsPrefix(s, t) == Len(s) <= Len(t) /\ \A p \in DOMAIN s : s[p] = t[p]

IndexOf(n) == CHOOSE i \in DOMAIN benches : benches[i].name = n

\* x modulo the width of the count type, for x >= -2 * Modulus.
Wrap(x) == (x + 2 * Modulus) % Modulus

Succeeded == pc = "done" /\ probe = "success"

\* C1: once validate has run on a registry whose names are pairwise distinct
\* and whose setup references all name a registered benchmark, it has
\* returned: the run did not end in one of validate's two panics.
C1_ValidateAcceptsValid ==
    (pc # "start" /\ ValidRegistry) => ~ValidatePanicked

C1_Witness ==
    /\ pc = "validated"
    /\ Len(benches) = 3
    /\ \E i \in DOMAIN benches : IsExcept(i)
    /\ \E i \in DOMAIN benches : ~IsVisible(benches[i])

\* C2: when some name is registered more than once, validate panics with the
\* duplicates message, and that message holds every name registered more than
\* once exactly one time and no name registered once.
C2_DuplicatesReportedOnce ==
    (pc # "start" /\ ~DistinctNames) =>
        /\ pc = "panicked"
        /\ panicMsg.kind = "duplicates"
        /\ \A n \in Names : MsgOcc(n) = IF Occ(n) > 1 THEN 1 ELSE 0
        /\ \A p \in DOMAIN panicMsg.names : panicMsg.names[p] \in Names

C2_Witness ==
    /\ pc = "panicked"
    /\ panicMsg.kind = "duplicates"
    /\ \E n \in Names : Occ(n) >= 3 /\ MsgOcc(n) = 1

\* C3: when the names are distinct and some setup reference names no
\* registered benchmark, validate panics with the undefined-names message,
\* which holds every dangling name exactly one time and nothing else.
C3_DanglingReported ==
    (pc # "start" /\ DistinctNames /\ Dangling # {}) =>
        /\ pc = "panicked"
        /\ panicMsg.kind = "undefined"
        /\ \A n \in Dangling : MsgOcc(n) = 1
        /\ \A p \in DOMAIN panicMsg.names : panicMsg.names[p] \in Dangling

C3_Witness ==
    /\ pc = "panicked"
    /\ panicMsg.kind = "undefined"
    /\ Cardinality(Dangling) = 2
    /\ \E i \in DOMAIN benches : IsExcept(i) /\ Registered(benches[i].reporting_mode.setup)

\* C4: no external tool (availability probe, architecture probe, calibration
\* or benchmark measurement) is started before validate has accepted the
\* registry; a run that validate aborted has started none.
C4_ValidateBeforeTools ==
    /\ ToolStarted => (pc # "start" /\ ValidRegistry)
    /\ ValidatePanicked => ~ToolStarted

C4_Witness ==
    /\ ValidatePanicked
    /\ DistinctNames
    /\ Len(benches) >= 2
    /\ ~ToolStarted

\* C5: when the availability probe of a validated registry fails, run_all
\* returns without panicking, no architecture probe, calibration or benchmark
\* measurement is started, and no result line is printed.
C5_UnavailableSkipsAll ==
    probe \in {"launch_error", "failure_status"} =>
        /\ pc = "done"
        /\ panicMsg = NoPanic
        /\ ValidRegistry
        /\ archProbes = 0
        /\ calib.st = "idle"
        /\ \A i \in DOMAIN task : task[i].st = "idle"
        /\ Len(ResultLines) = 0

C5_Witness ==
    /\ probe = "failure_status"
    /\ pc = "done"
    /\ Len(benches) = 3
    /\ \E i \in DOMAIN benches : IsVisible(benches[i])

\* C6, as claimed: when the availability probe fails, nothing at all is
\* written to standard output.
C6_NoOutputWhenUnavailable ==
    probe \in {"launch_error", "failure_status"} => stdout = <<>>

\* C6, amended: when the availability probe fails, standard output holds
\* exactly one line, the diagnostic of check_valgrind for the way the probe
\* failed, and no result line.
C6_OnlyDiagnosticWhenUnavailable ==
    probe \in {"launch_error", "failure_status"} =>
        /\ Len(stdout) = 1
        /\ stdout[1].kind = "diagnostic"
        /\ stdout[1].name = probe

C6_Witness ==
    /\ probe = "launch_error"
    /\ pc = "done"
    /\ Len(stdout) = 1
    /\ Len(benches) >= 1

\* C7: whatever order the parallel measurements come back in, the names on
\* the result lines are, at every moment, a prefix of the registration-order
\* sequence of the non-hidden benchmarks, and the whole of it at the end.
C7_ReportInRegistrationOrder ==
    /\ IsPrefix(ResultNames, VisibleNames)
    /\ Succeeded => ResultNames = VisibleNames

C7_Witness ==
    /\ Succeeded
    /\ outOfOrder
    /\ Len(ResultLines) = 3
    /\ ResultNames = <<"calibration", "a", "b">>

\* C8: no hidden benchmark is ever on a result line, and after a successful
\* run every non-hidden benchmark is on exactly one, so that the number of
\* result lines is the number of non-hidden benchmarks.
C8_HiddenNeverVisibleOnce ==
    /\ \A i \in DOMAIN benches :
          ~IsVisible(benches[i]) => LinesOf(benches[i].name) = 0
    /\ Succeeded =>
          /\ \A i \in DOMAIN benches :
                IsVisible(benches[i]) => LinesOf(benches[i].name) = 1
          /\ Len(ResultLines) = Cardinality({i \in DOMAIN benches : IsVisible(benches[i])})
          /\ Len(stdout) = Len(ResultLines)

C8_Witness ==
    /\ Succeeded
    /\ Len(benches) = 3
    /\ Len(ResultLines) = 2
    /\ \E i \in DOMAIN benches : ~IsVisible(benches[i])

\* C9: the count printed for a benchmark W of mode
\* AllInstructionsExceptSetup(S) is, in the arithmetic of the count type,
\* (raw(W) - calibration) - (raw(S) - calibration): the value stored for W
\* minus the value stored for S, whatever the mode of S.
C9_SetupSubtracted ==
    \A p \in DOMAIN stdout :
        (stdout[p].kind = "result" /\ IsExcept(IndexOf(stdout[p].name))) =>
            LET w == IndexOf(stdout[p].name)
                s == IndexOf(benches[w].reporting_mode.setup)
            IN /\ results[benches[w].name] = Wrap(task[w].raw - calib.raw)
               /\ results[benches[s].name] = Wrap(task[s].raw - calib.raw)
               /\ stdout[p].count =
                     Wrap(results[benches[w].name] - results[benches[s].name])
               /\ stdout[p].count =
                     Wrap(Wrap(task[w].raw - calib.raw) - Wrap(task[s].raw - calib.raw))

C9_Witness ==
    /\ Succeeded
    /\ calib.raw = 0
    /\ \E p \in DOMAIN stdout :
          /\ stdout[p].kind = "result"
          /\ stdout[p].count = 1
          /\ LET w == IndexOf(stdout[p].name) IN
               /\ IsExcept(w)
               /\ task[w].raw = 1
               /\ LET s == IndexOf(benches[w].reporting_mode.setup) IN
                    /\ s # w
                    /\ task[s].raw = 0
                    /\ IsExcept(s)
                    /\ task[IndexOf(benches[s].reporting_mode.setup)].raw = 1

\* C10: the count printed for a benchmark of mode AllInstructions is, in the
\* arithmetic of the count type, the raw count of that benchmark's own
\* measurement minus the calibration count of the run.
C10_CalibrationSubtracted ==
    \A p \in DOMAIN stdout :
        (stdout[p].kind = "result"
           /\ benches[IndexOf(stdout[p].name)].reporting_mode.kind = "AllInstructions") =>
            stdout[p].count = Wrap(task[IndexOf(stdout[p].name)].raw - calib.raw)

C10_Witness ==
    /\ Succeeded
    /\ calib.raw = 1
    /\ Len(benches) = 3
    /\ \E p, q \in DOMAIN stdout :
          /\ stdout[p].kind = "result"
          /\ stdout[p].count = 0
          /\ benches[IndexOf(stdout[p].name)].reporting_mode.kind = "AllInstructions"
          /\ task[IndexOf(stdout[p].name)].raw = 1
          /\ stdout[q].kind = "result"
          /\ stdout[q].count = Modulus - 1
          /\ benches[IndexOf(stdout[q].name)].reporting_mode.kind = "AllInstructions"
          /\ task[IndexOf(stdout[q].name)].raw = 0

\* ---------------------------------------------------------------- C11..C14
\* The first argument is the flag: stated on the command line itself.
FlagFirst == Len(argv) >= 2 /\ argv[2] = "--bench-run"

\* run_single has been called with an index text that reads as an integer.
ChildCalled == FlagFirst /\ Len(argv) >= 3 /\ pc \in {"child_done", "panicked"}

ChildIndex == parse_isize(argv[3])

\* C11: a child invocation with index -1 runs no benchmark function of the
\* registry, whatever the registry (the empty one included), and returns
\* normally.
C11_SentinelRunsNothing ==
    (ChildCalled /\ ChildIndex.ok /\ ChildIndex.val = -1)
        => (pc = "child_done" /\ ran = <<>> /\ panicMsg = NoPanic)

C11_Witness ==
    /\ pc = "child_done"
    /\ argv = <<"exe", "--bench-run", "-1">>
    /\ benches = <<>>

\* C12: a child invocation with index i, 0 <= i < N, runs the function of the
\* benchmark at registry position i once and no other, returns normally, and
\* neither validates the registry, nor probes or launches the profiler, nor
\* prints anything.
C12_ChildRunsExactlyOne ==
    /\ (FlagFirst /\ pc \in {"main", "run_single"}) => ran = <<>>
    /\ (ChildCalled /\ ChildIndex.ok
            /\ ChildIndex.val >= 0 /\ ChildIndex.val < Len(benches))
          => /\ pc = "child_done"
             /\ ran = <<ChildIndex.val + 1>>
             /\ panicMsg = NoPanic
             /\ stdout = <<>>
             /\ valgrindProbes = 0
             /\ archProbes = 0
             /\ calib.st = "idle"
             /\ \A i \in DOMAIN task : task[i].st = "idle"

C12_Witness ==
    /\ pc = "child_done"
    /\ Len(benches) = 3
    /\ benches[1].name = benches[3].name
    /\ argv = <<"exe", "--bench-run", "2">>
    /\ ran = <<3>>

\* C13: a child invocation whose index is an integer other than -1 and
\* outside [0, N) ends in a panic and runs no benchmark function.
C13_OutOfRangeIsFatal ==
    (ChildCalled /\ ChildIndex.ok /\ ChildIndex.val # -1
        /\ ~(ChildIndex.val >= 0 /\ ChildIndex.val < Len(benches)))
        => (pc = "panicked" /\ panicMsg.kind = "index" /\ ran = <<>>)

C13_Witness ==
    /\ pc = "panicked"
    /\ argv = <<"exe", "--bench-run", "-2">>
    /\ Len(benches) = 3
    /\ ran = <<>>

\* The command line has the shape "flag, then an integer".
FlagThenInteger == FlagFirst /\ Len(argv) >= 3 /\ parse_isize(argv[3]).ok

\* C14 as stated: the process is a child exactly when the first argument is
\* the flag followed by an integer, and every other command line starts the
\* top-level run.
C14_EveryOtherShapeIsTopLevel ==
    pc # "main" => IF FlagThenInteger
                     THEN pc \in {"run_single", "child_done", "panicked"}
                     ELSE pc = "start"

\* C14, amended: the child path is taken exactly when the first argument is
\* the flag. Every other command line starts the top-level run; a flag with
\* no argument after it, or with one that is not an integer, ends in a panic
\* without running a benchmark and without starting the top-level run.
C14_ChildIffFlagFirst ==
    pc # "main" =>
        /\ ~FlagFirst => (pc = "start" /\ panicMsg = NoPanic)
        /\ FlagFirst => pc \in {"run_single", "child_done", "panicked"}
        /\ (FlagFirst /\ Len(argv) < 3)
              => (pc = "panicked" /\ panicMsg.kind = "args" /\ ran = <<>>)
        /\ (FlagFirst /\ Len(argv) >= 3 /\ ~parse_isize(argv[3]).ok)
              => /\ ran = <<>>
                 /\ \/ pc = "run_single"
                    \/ pc = "panicked" /\ panicMsg.kind = "parse"

C14_Witness ==
    /\ pc = "panicked"
    /\ argv = <<"exe", "--bench-run">>
    /\ panicMsg.kind = "args"

\* ---------------------------------------------------------------- C15..C18
SomeMeasurementFailed ==
    calib.st = "failed" \/ \E i \in DOMAIN task : task[i].st = "failed"

\* C15: no result line is printed before the calibration and all the
\* benchmark measurements have come back with a count; once the architecture
\* probe, the calibration or any benchmark measurement has failed, the run
\* never reaches the report and ends in a panic with no result line printed.
C15_NoPartialReport ==
    /\ (pc = "report" \/ ResultLines # <<>>)
          => (calib.st = "done" /\ \A i \in DOMAIN task : task[i].st = "done")
    /\ SomeMeasurementFailed
          => (pc \in {"parallel", "panicked"} /\ ResultLines = <<>>)
    /\ (pc = "panicked" /\ panicMsg.kind \in {"arch", "measurement"})
          => ResultLines = <<>>

C15_Witness ==
    /\ pc = "panicked"
    /\ panicMsg.kind = "measurement"
    /\ Len(benches) = 3
    /\ task[1].st = "done"
    /\ task[2].st = "failed"
    /\ task[3].st = "done"
    /\ \E i \in DOMAIN benches : IsVisible(benches[i])
    /\ stdout = <<>>

\* The count measured under the label n, less the calibration, in u64.
Adjusted(n) == Wrap(task[IndexOf(n)].raw - calib.raw)

\* The line the report owes to registry position k, from the registry and
\* the raw counts alone.
ExpectedLine(k) ==
    LET b == benches[k] IN
    ResultLine(IF b.reporting_mode.kind = "AllInstructions"
                 THEN Adjusted(b.name)
                 ELSE Wrap(Adjusted(b.name) - Adjusted(b.reporting_mode.setup)),
               b.name)

RECURSIVE ExpectedUpTo(_)
ExpectedUpTo(k) ==
    IF k = 0 THEN <<>>
    ELSE IF IsVisible(benches[k]) THEN Append(ExpectedUpTo(k - 1), ExpectedLine(k))
    ELSE ExpectedUpTo(k - 1)

\* C16: the text a run writes is a function of the registry and of the raw
\* counts the measurements return; the order in which the parallel
\* measurements start and finish has no part in it. Two runs over the same
\* registry and the same counts therefore write the same text.
C16_OutputDeterminedByCounts ==
    (probe = "success" /\ pc \in {"report", "done"})
        => stdout = ExpectedUpTo(next - 1)

C16_Witness ==
    /\ Succeeded
    /\ outOfOrder
    /\ Len(stdout) = 2
    /\ stdout[1].count # stdout[2].count
    /\ \E i \in DOMAIN benches : IsExcept(i) /\ IsVisible(benches[i])

\* The path a measurement of index i (-1 for the calibration) owns.
OwnPath(i) ==
    <<"target/cachegrind/cachegrind.out.",
      IF i = -1 THEN "calibration" ELSE benches[i + 1].name>>

\* C17: no two measurements in flight write to the same output file, the
\* calibration measurement is never in flight together with a benchmark's,
\* and every file removed was removed by the measurement that owns its path.
\* (Measurements exist only once validate has accepted the registry.)
C17_OutputFilesDisjoint ==
    /\ \A m1 \in inflight : \A m2 \in inflight : m1.path = m2.path => m1.by = m2.by
    /\ \A m \in inflight : m.by = -1 => inflight = {m}
    /\ \A m \in inflight \cup removed : m.path = OwnPath(m.by)
    /\ inflight # {} => DistinctNames

C17_Witness ==
    /\ \E m1 \in inflight : \E m2 \in inflight :
          /\ m1.by # m2.by
          /\ m1.path = <<"target/cachegrind/cachegrind.out.", "calibration">>
    /\ \E m \in removed : m.by = -1 /\ m.path[2] = "calibration"
    /\ \E m \in removed : m.by >= 0

\* C18 as stated: every count stored in the map is raw - calibration as an
\* integer, hence never negative and never more than raw, whatever the two
\* counts are; the map is built once and stays as built during the report.
C18_StoredIsExactDifference ==
    /\ \A i \in DOMAIN task :
          task[i].st = "done" =>
              (task[i].count = task[i].raw - calib.raw /\ task[i].count >= 0)
    /\ (probe = "success" /\ pc \in {"report", "done"}) =>
          /\ results = Collect(benches, task)
          /\ \A i \in DOMAIN benches :
                results[benches[i].name] = task[i].raw - calib.raw

\* --------------------------------------------------------------------- C19
FullReport ==
    /\ pc = "done"
    /\ probe = "success"
    /\ ResultNames = VisibleNames
    /\ Len(stdout) = Len(ResultLines)

CleanNoOp ==
    /\ pc = "done"
    /\ probe \in {"launch_error", "failure_status"}
    /\ ResultLines = <<>>
    /\ archProbes = 0
    /\ calib.st = "idle"
    /\ \A i \in DOMAIN task : task[i].st = "idle"

FatalTermination == pc = "panicked" /\ panicMsg # NoPanic

Terminated == pc \in {"done", "panicked"}

\* C19: a run that has ended has ended in exactly one of a full report in
\* registration order, a clean no-op for want of the profiler, or a fatal
\* termination; and, every subprocess launched exiting in the end, every run
\* does end.
C19_EndsInOneOutcome ==
    /\ [](Terminated =>
            /\ FullReport \/ CleanNoOp \/ FatalTermination
            /\ ~(FullReport /\ CleanNoOp)
            /\ ~(FullReport /\ FatalTermination)
            /\ ~(CleanNoOp /\ FatalTermination))
    /\ <>Terminated

C19_Witness ==
    /\ FatalTermination
    /\ panicMsg.kind = "measurement"
    /\ Len(benches) = 3
    /\ task[1].st = "failed"
    /\ task[2].st = "done"
    /\ task[3].st = "idle"

\* --------------------------------------------------------------------- C20
ModeOfCall(c) ==
    IF c.op = "hidden" THEN Hidden ELSE AllInstructionsExceptSetup(c.name)

\* C20: Benchmark::new gives AllInstructions; hidden gives Hidden;
\* exclude_setup_instructions(s) gives AllInstructionsExceptSetup(s); every
\* builder call leaves the name and the function as new set them; in a chain
\* the last builder call decides the mode.
C20_LastBuilderWins ==
    calls # <<>> =>
        /\ calls[1].op = "new"
        /\ built.name = calls[1].name
        /\ built.function = calls[1].function
        /\ built.reporting_mode =
              IF Len(calls) = 1 THEN AllInstructions
                                ELSE ModeOfCall(calls[Len(calls)])

C20_Witness ==
    /\ Len(calls) = 3
    /\ calls[2].op = "exclude_setup_instructions"
    /\ calls[3].op = "hidden"
    /\ built = [name |-> "b", function |-> "g", reporting_mode |-> Hidden]

\* ---------------------------------------------------------------- C21..C22
\* C21: in a run that reaches measurement the architecture is resolved once
\* and the calibration child is measured once; no benchmark measurement
\* starts before the calibration measurement has returned; and every adjusted
\* count is its raw count less that one calibration value.
C21_CalibrationOnceAndFirst ==
    /\ archProbes <= 1
    /\ launches[-1] <= 1
    /\ calib.st # "idle" => (archProbes = 1 /\ launches[-1] = 1)
    /\ \A i \in DOMAIN task :
          /\ (task[i].st # "idle" \/ launches[i - 1] > 0)
                => (calib.st = "done" /\ launches[-1] = 1 /\ archProbes = 1)
          /\ task[i].st = "done" => task[i].count = Wrap(task[i].raw - calib.raw)

C21_Witness ==
    /\ Succeeded
    /\ Len(benches) = 3
    /\ archProbes = 1
    /\ launches[-1] = 1
    /\ calib.raw = 1
    /\ \A i \in DOMAIN task : task[i].raw = 1 /\ task[i].count = 0

\* C22: no measurement is launched twice, whatever becomes of it; a
\* benchmark's measurement has been launched exactly when its task has left
\* the idle state; and after a successful run every index 0..N-1 has been
\* launched exactly once, the hidden benchmarks' too.
C22_OneLaunchPerIndex ==
    /\ \A i \in DOMAIN task :
          /\ launches[i - 1] <= 1
          /\ launches[i - 1] = 1 <=> task[i].st # "idle"
    /\ Succeeded => (DOMAIN launches = -1 .. Len(benches) - 1
                      /\ \A i \in 0 .. Len(benches) - 1 : launches[i] = 1)

C22_Witness ==
    /\ Succeeded
    /\ Len(benches) = 3
    /\ benches[2].reporting_mode.kind = "Hidden"
    /\ \A i \in 0 .. 2 : launches[i] = 1

\* --------------------------------------------------------------------- C23
\* What the child started for index i does with the registry, which it
\* builds as the parent did.
ChildOf(i) == run_single(ChildArgs(i)[3], benches)

\* C23: once the map is built, the value under the name of the benchmark at
\* registry position k is the count of the measurement launched with index
\* k - 1 and labelled with that name, and the child started with that index
\* takes the child path and runs the function at position k and no other.
C23_PositionalAgreement ==
    /\ \A m \in inflight :
          m.by >= 0 => m.path[2] = benches[m.by + 1].name
    /\ (probe = "success" /\ pc \in {"report", "done"}) =>
          \A k \in DOMAIN benches :
              /\ results[benches[k].name] = task[k].count
              /\ launches[k - 1] = 1
              /\ ChildArgs(k - 1)[2] = "--bench-run"
              /\ ChildOf(k - 1) = [panic |-> "none", ran |-> <<k>>]

C23_Witness ==
    /\ Succeeded
    /\ outOfOrder
    /\ Len(benches) = 3
    /\ benches[1].name = "b"
    /\ calib.raw = 0
    /\ task[1].raw = 1
    /\ task[2].raw = 0
    /\ task[3].raw = 0
    /\ results["b"] = 1

\* ---------------------------------------------------------------- C27..C28
ReportReached ==
    /\ probe = "success"
    /\ \/ pc \in {"report", "done"}
       \/ pc = "panicked" /\ panicMsg.kind = "report"

\* C27: once the parallel phase is over the keys of the map are the
\* registered names, one entry for each of the N benchmarks, and the setup
\* name of every AllInstructionsExceptSetup benchmark is among them; so the
\* loop never panics for a missing key: if it panics, it is on a subtraction
\* whose two operands it found.
C27_ResultsCoverRegistry ==
    ReportReached =>
        /\ DOMAIN results = {benches[i].name : i \in DOMAIN benches}
        /\ Cardinality(DOMAIN results) = Len(benches)
        /\ \A i \in DOMAIN benches :
              IsExcept(i) => benches[i].reporting_mode.setup \in DOMAIN results
        /\ pc = "panicked" =>
              LET w == benches[next] IN
              /\ w.reporting_mode.kind = "AllInstructionsExceptSetup"
              /\ results[w.name] < results[w.reporting_mode.setup]

C27_Witness ==
    /\ Succeeded
    /\ Len(benches) = 3
    /\ Cardinality(DOMAIN results) = 3
    /\ IsExcept(1)
    /\ IsExcept(3)
    /\ benches[1].reporting_mode.setup = benches[3].name

\* C28 as stated: every count printed for an AllInstructionsExceptSetup
\* benchmark is the difference of the two stored values as an integer, never
\* negative, and the subtraction neither wraps nor stops the report, also
\* when the setup's stored value is the larger one.
C28_SetupDifferenceExact ==
    /\ ~(pc = "panicked" /\ panicMsg.kind = "report")
    /\ \A p \in DOMAIN stdout :
          (stdout[p].kind = "result" /\ IsExcept(IndexOf(stdout[p].name))) =>
              LET w == benches[IndexOf(stdout[p].name)] IN
              /\ stdout[p].count = results[w.name] - results[w.reporting_mode.setup]
              /\ stdout[p].count >= 0

\* ---------------------------------------------------------------- C24..C26
\* C24: when the profiled child exits with a non-success status, run_bench
\* panics without having read the output file, without having parsed or
\* returned a count and without having touched the file, also when the file
\* holds a valid summary line.
C24_FailureStatusIsFatal ==
    rb.status = "failure" =>
        /\ pc = "panicked"
        /\ panicMsg.kind = "failure"
        /\ ~rb.read
        /\ rb.parsed = NoCount
        /\ rb.ret = NoCount
        /\ rb.removes = 0

C24_Witness ==
    /\ rb.status = "failure"
    /\ pc = "panicked"
    /\ outfile = [exists |-> TRUE, lines |-> <<<<"summary: ", "1">>>>]

\* The line starts with the literal "summary: ".
HasPrefix(l) == l # <<>> /\ l[1] = "summary: "

\* What follows the prefix, without the blanks around it.
SummaryText(l) == trim(Tail(l))

\* The line has the form "summary: <integer>".
IsSummaryInteger(l) == HasPrefix(l) /\ parse_u64(SummaryText(l)).ok

\* The file has been parsed and is still as it was then.
Parsed == rb.read /\ pc \in {"rb_remove", "panicked"}

\* C25 as stated: a file with at least one line "summary: <integer>" yields
\* the integer of such a line, whatever lines come before it; any other file
\* is fatal.
C25_AnySummaryLineIsFound ==
    Parsed =>
        IF outfile.exists /\ \E k \in DOMAIN outfile.lines :
                                 IsSummaryInteger(outfile.lines[k])
          THEN /\ pc = "rb_remove"
               /\ \E k \in DOMAIN outfile.lines :
                     /\ IsSummaryInteger(outfile.lines[k])
                     /\ rb.parsed = SomeCount(parse_u64(SummaryText(outfile.lines[k])).val)
          ELSE pc = "panicked" /\ rb.parsed = NoCount

\* The first line that cannot be decoded or starts with "summary: ", 0 when
\* there is none.
Decisive ==
    LET hits == {k \in DOMAIN outfile.lines :
                    outfile.lines[k] = <<"<invalid utf-8>">> \/ HasPrefix(outfile.lines[k])}
    IN IF hits = {} THEN 0 ELSE CHOOSE k \in hits : \A j \in hits : k <= j

\* C25, amended: the count is read from the first line that starts with
\* "summary: ": if what follows, blanks trimmed, is an unsigned integer
\* within u64, that integer is returned, whatever the lines before and after
\* it. The call panics, returning nothing (no default of 0), when the file is
\* missing, when it has no such line, when a line before it cannot be
\* decoded, or when that first line's text is no such integer, also when a
\* later line is a well-formed summary line.
C25_FirstSummaryLineDecides ==
    Parsed =>
        IF /\ outfile.exists
           /\ Decisive > 0
           /\ IsSummaryInteger(outfile.lines[Decisive])
          THEN /\ pc = "rb_remove"
               /\ panicMsg = NoPanic
               /\ rb.parsed = SomeCount(parse_u64(SummaryText(outfile.lines[Decisive])).val)
          ELSE /\ pc = "panicked"
               /\ panicMsg.kind \in {"open", "read", "summary", "no summary"}
               /\ rb.parsed = NoCount
               /\ rb.ret = NoCount

C25_Witness ==
    /\ Parsed
    /\ pc = "panicked"
    /\ panicMsg.kind = "summary"
    /\ outfile.lines = <<<<"e", "v", "e", "n", "t", "s", ":", " ", "I", "r">>,
                         <<"summary: ", "x">>,
                         <<"summary: ", "1">>>>

\* C26: the deletion of the output file is attempted once, after the count
\* has been parsed, in every call that returns; the file is gone when the
\* deletion succeeds; whether it succeeds or fails the call returns, and
\* returns the count parsed.
C26_RemovalIsBestEffort ==
    /\ rb.removes <= 1
    /\ rb.removes = 1 => (rb.read /\ rb.parsed.some /\ pc = "rb_returned")
    /\ pc = "rb_returned" =>
          /\ rb.removes = 1
          /\ panicMsg = NoPanic
          /\ rb.ret.some
          /\ rb.ret = rb.parsed
          /\ rb.remove_ok => outfile = NoFile
          /\ ~rb.remove_ok => outfile.exists

C26_Witness ==
    /\ pc = "rb_returned"
    /\ ~rb.remove_ok
    /\ rb.ret = SomeCount(2)
    /\ outfile.exists
    /\ Len(outfile.lines) = 2


============================================================================
